---- MODULE Spec2Model ----
(***************************************************************************)
(* Model of checkMACrossSignal.py: a moving-average crossover detector     *)
(* (calculate_ma, detect_cross), its data source (get_tushare_futures_data,*)
(* generate_test_data) and its orchestrator (strategy_main).               *)
(*                                                                         *)
(* A DataFrame is a record [none, columns, rows]; a row is a function from *)
(* the column names and the pseudo-column "index" (the row label) to the   *)
(* cell.  Prices are integers (one unit is one price tick), a moving       *)
(* average is the exact rational [num, den] (den = 0 is NaN), so the       *)
(* comparisons are those of exact arithmetic.                              *)
(***************************************************************************)
EXTENDS Integers, Sequences, FiniteSets, TLC

VARIABLES pc, src, fetched, mid, out, log, alerts

vars == <<pc, src, fetched, mid, out, log, alerts>>

(* ------------------------------ configuration ------------------------- *)
SHORT_MA == 5
LONG_MA == 20
KEEP_ROWS == 100
FETCH_COUNT == 200
DEFAULT_N == 50
LAST_BARS == 5
LOW_LEVEL == 1000
HIGH_LEVEL == 1200
NOISE_SD == 5

(* ------------------------------ bounds -------------------------------- *)
MaxLen == 7
MaxVariantLen == 3
MaxStepLen == 27
MaxNoise == 2
MaxTestShort == 2

\* the close prices of the enumerated series
PriceLevels == {1, 2}

(* ------------------------------ values -------------------------------- *)
NaN == -1
NaNMA == [num |-> 0, den |-> 0]
None == [none |-> TRUE, columns |-> {}, rows |-> <<>>]

MAColumns == {"Short_MA", "Long_MA"}

IntColumns == {"Signal", "index"}

\* pd.isna of the cell of column x: an average is NaN when it has no terms,
\* an integer column (Signal, the row label) never holds NaN
IsNaN(x, v) ==
    CASE x \in MAColumns -> v.den = 0
      [] x \in IntColumns -> FALSE
      [] OTHER -> v = NaN

\* float comparisons of two averages: every comparison with NaN is False
Gt(a, b) == a.den # 0 /\ b.den # 0 /\ a.num * b.den > b.num * a.den
Lt(a, b) == a.den # 0 /\ b.den # 0 /\ a.num * b.den < b.num * a.den
Le(a, b) == a.den # 0 /\ b.den # 0 /\ a.num * b.den <= b.num * a.den
Ge(a, b) == a.den # 0 /\ b.den # 0 /\ a.num * b.den >= b.num * a.den

Min(a, b) == IF a < b THEN a ELSE b
Max(a, b) == IF a > b THEN a ELSE b

Frame(cols, rws) == [none |-> FALSE, columns |-> cols, rows |-> rws]

\* the function f on 1..n as the sequence <<f[1], ..., f[n]>>
AsSeq(f) == SubSeq(f, 1, Len(f))

\* row r with cell c set to v
SetCell(r, c, v) == (c :> v) @@ r

\* row r restricted to the cells of keys
Cells(r, keys) == [x \in keys |-> r[x]]

\* s.iloc[-k:]
ILocLast(s, k) == IF Len(s) > k THEN SubSeq(s, Len(s) - k + 1, Len(s)) ELSE s

\* df[c] = vals: the column is added to (or replaced in) every row
SetColumn(df, c, vals) ==
    Frame(df.columns \cup {c},
          AsSeq([i \in 1..Len(df.rows) |-> SetCell(df.rows[i], c, vals[i])]))

\* variant of DropNa that keeps every row
DropNothing(df) == df

\* df.dropna(): a row is kept when none of its cells is NaN
RowValid(r) == \A x \in DOMAIN r : ~IsNaN(x, r[x])
DropNa(df) == Frame(df.columns, SelectSeq(df.rows, RowValid))

\* df.dropna(subset=cols)
DropNaSubset(df, cols) ==
    Frame(df.columns,
          SelectSeq(df.rows, LAMBDA r : \A x \in cols : ~IsNaN(x, r[x])))

\* df[[...]]: the selected columns (and the row label) of every row
SelectColumns(df, cols) ==
    Frame(cols, AsSeq([i \in 1..Len(df.rows) |->
                          Cells(df.rows[i], cols \cup {"index"})]))

(* ------------------------------ calculate_ma -------------------------- *)
RECURSIVE SumValid(_, _, _)
SumValid(rws, lo, hi) ==
    IF lo > hi THEN 0
    ELSE (IF rws[hi]["close"] = NaN THEN 0 ELSE rws[hi]["close"])
         + SumValid(rws, lo, hi - 1)

RECURSIVE CountValid(_, _, _)
CountValid(rws, lo, hi) ==
    IF lo > hi THEN 0
    ELSE (IF rws[hi]["close"] = NaN THEN 0 ELSE 1) + CountValid(rws, lo, hi - 1)

\* variant of RollingMean whose window is one row short
RollingMeanShortWindow(rws, w, i) ==
    LET lo == Max(1, i - w + 2)
        n == CountValid(rws, lo, i)
    IN IF n >= 1 THEN [num |-> SumValid(rws, lo, i), den |-> n] ELSE NaNMA

\* df['close'].rolling(window=w, min_periods=1).mean() at row i
RollingMean(rws, w, i) ==
    LET lo == Max(1, i - w + 1)
        n == CountValid(rws, lo, i)
    IN IF n >= 1 THEN [num |-> SumValid(rws, lo, i), den |-> n] ELSE NaNMA

\* the Series df['close'].rolling(window=w, min_periods=1).mean()
Rolling(df, w) == AsSeq([i \in 1..Len(df.rows) |-> RollingMean(df.rows, w, i)])

calculate_ma(df) ==
    IF "close" \notin df.columns
    THEN [ret |-> None, arg |-> df, log |-> <<"ERROR:missing_close">>]
    ELSE LET c0 == df  \* df.copy(): the argument itself is left alone
             c1 == SetColumn(c0, "Short_MA", Rolling(df, SHORT_MA))
             c2 == SetColumn(c1, "Long_MA", Rolling(df, LONG_MA))
             kept == DropNa(c2)
         IN [ret |-> Frame(kept.columns, ILocLast(kept.rows, KEEP_ROWS)),
             arg |-> df, log |-> <<>>]

(* ------------------------------ detect_cross -------------------------- *)
OUT_COLUMNS ==
    {"time", "open", "high", "low", "close", "Short_MA", "Long_MA", "Signal"}

\* df[col].shift(1) at row i: the previous row's cell, NaN on the first row
Shift1(rws, col, i) == IF i = 1 THEN NaNMA ELSE rws[i - 1][col]

\* variant of cross_up with >= for >
CrossUpNonStrict(rws, i) ==
    /\ Ge(rws[i]["Short_MA"], rws[i]["Long_MA"])
    /\ Le(Shift1(rws, "Short_MA", i), Shift1(rws, "Long_MA", i))

\* variant of cross_up with < for <= on the previous row
CrossUpStrict(rws, i) ==
    /\ Gt(rws[i]["Short_MA"], rws[i]["Long_MA"])
    /\ Lt(Shift1(rws, "Short_MA", i), Shift1(rws, "Long_MA", i))

cross_up(rws, i) ==
    /\ Gt(rws[i]["Short_MA"], rws[i]["Long_MA"])
    /\ Le(Shift1(rws, "Short_MA", i), Shift1(rws, "Long_MA", i))

cross_down(rws, i) ==
    /\ Lt(rws[i]["Short_MA"], rws[i]["Long_MA"])
    /\ Ge(Shift1(rws, "Short_MA", i), Shift1(rws, "Long_MA", i))

\* variant of InsufficientData with len(df) < 1
InsufficientDataOffByOne(df) == df.none \/ Len(df.rows) < 1

\* df is None or len(df) < 2
InsufficientData(df) == df.none \/ Len(df.rows) < 2

\* ret is the value returned, arg the object passed in as the call leaves it
detect_cross(df) ==
    IF InsufficientData(df)
    THEN [ret |-> None, arg |-> df, log |-> <<"WARNING:insufficient_data">>]
    ELSE LET d1 == SetColumn(df, "Signal", [i \in 1..Len(df.rows) |-> 0])
         IN IF ~(MAColumns \subseteq d1.columns)
            THEN [ret |-> None, arg |-> d1, log |-> <<"ERROR:signal">>]
            ELSE LET d2 == SetColumn(d1, "Signal",
                               [i \in 1..Len(d1.rows) |->
                                   IF cross_up(d1.rows, i) THEN 1
                                   ELSE d1.rows[i]["Signal"]])
                     d3 == SetColumn(d2, "Signal",
                               [i \in 1..Len(d2.rows) |->
                                   IF cross_down(d1.rows, i) THEN -1
                                   ELSE d2.rows[i]["Signal"]])
                     d4 == DropNaSubset(d3, {"Signal"})
                 IN IF OUT_COLUMNS \subseteq d4.columns
                    THEN [ret |-> SelectColumns(d4, OUT_COLUMNS), arg |-> d3,
                          log |-> <<>>]
                    ELSE [ret |-> None, arg |-> d3, log |-> <<"ERROR:signal">>]

(* ------------------------------ generate_test_data -------------------- *)
TEST_COLUMNS == {"time", "open", "close", "high", "low", "amount", "oi"}

\* np.random.normal(0, 0.05) in ticks of 0.01: a bounded offset per bar
Noise(amp, phase, i) == amp * (((i + phase) % 3) - 1)

generate_test_data(signal_type, n, amp, phase) ==
    LET first == IF signal_type = "golden" THEN LOW_LEVEL ELSE HIGH_LEVEL
        last == IF signal_type = "golden" THEN HIGH_LEVEL ELSE LOW_LEVEL
        close_price == [i \in 1..n |->
                           (IF i <= n - LAST_BARS THEN first ELSE last)
                           + Noise(amp, phase, i)]
    IN Frame(TEST_COLUMNS,
             AsSeq([i \in 1..n |->
                 [index |-> i - 1, time |-> i, open |-> close_price[i],
                  close |-> close_price[i], high |-> close_price[i],
                  low |-> close_price[i], amount |-> 10000, oi |-> 5000]]))

(* ------------------------------ get_tushare_futures_data -------------- *)
RenameTo(c) == IF c = "trade_time" THEN "time" ELSE c

\* df.rename(columns={'trade_time': 'time', ...})
Rename(df) ==
    LET cols == {RenameTo(c) : c \in df.columns}
    IN Frame(cols,
             AsSeq([i \in 1..Len(df.rows) |->
                 [x \in cols \cup {"index"} |->
                     IF x = "time" /\ "trade_time" \in df.columns
                     THEN df.rows[i]["trade_time"]
                     ELSE df.rows[i][x]]]))

\* df.set_index(c): the column becomes the row label
SetIndex(df, c) ==
    Frame(df.columns \ {c},
          AsSeq([i \in 1..Len(df.rows) |->
              [x \in (df.columns \ {c}) \cup {"index"} |->
                  IF x = "index" THEN df.rows[i][c] ELSE df.rows[i][x]]]))

RECURSIVE InsertByIndex(_, _)
InsertByIndex(sorted, r) ==
    IF sorted = <<>> THEN <<r>>
    ELSE IF sorted[Len(sorted)]["index"] <= r["index"] THEN Append(sorted, r)
    ELSE Append(InsertByIndex(SubSeq(sorted, 1, Len(sorted) - 1), r),
                sorted[Len(sorted)])

RECURSIVE SortRows(_, _)
SortRows(rws, n) ==
    IF n = 0 THEN <<>> ELSE InsertByIndex(SortRows(rws, n - 1), rws[n])

\* df.sort_index()
SortIndex(df) == Frame(df.columns, SortRows(df.rows, Len(df.rows)))

\* raised: pro.rt_fut_min raised; resp: what it returned otherwise
get_tushare_futures_data(raised, resp, count) ==
    IF raised \/ resp.none
    THEN [ret |-> None, log |-> <<"ERROR:tushare">>]
    ELSE LET renamed == Rename(resp)
         IN IF "trade_time" \notin renamed.columns
            THEN [ret |-> None, log |-> <<"ERROR:tushare">>]
            ELSE LET sorted == SortIndex(SetIndex(renamed, "trade_time"))
                 IN [ret |-> Frame(sorted.columns, ILocLast(sorted.rows, count)),
                     log |-> <<>>]

(* ------------------------------ send_email_alert / strategy_main ------ *)
\* one invocation: the message built, and the log line of its delivery
send_email_alert(df, signal_type, price, timestamp, smtp_ok) ==
    [alert |-> [signal_type |-> signal_type, price |-> price,
                timestamp |-> timestamp,
                short |-> df.rows[Len(df.rows)]["Short_MA"],
                long |-> df.rows[Len(df.rows)]["Long_MA"]],
     log |-> IF smtp_ok THEN <<"INFO:mail_sent">> ELSE <<"ERROR:mail_failed">>]

\* variant of Latest that takes the first row with a signal, if any
FirstSignalRow(df) ==
    IF \E i \in 1..Len(df.rows) : df.rows[i]["Signal"] # 0
    THEN df.rows[CHOOSE i \in 1..Len(df.rows) : df.rows[i]["Signal"] # 0]
    ELSE df.rows[Len(df.rows)]

\* df.iloc[-1]: the row of the series strategy_main inspects
Latest(df) == df.rows[Len(df.rows)]

Idle(lg) == [mid |-> None, out |-> None, alerts |-> <<>>, log |-> lg]

\* lines 195-207: latest is the last row of the detected series d.ret
strategy_notify(d, latest, smtp_ok) ==
    IF latest["Signal"] # 0
    THEN LET e == send_email_alert(d.ret,
                      IF latest["Signal"] > 0 THEN "golden" ELSE "death",
                      latest["close"], latest["time"], smtp_ok)
         IN [mid |-> d.arg, out |-> d.ret, alerts |-> <<e.alert>>,
             log |-> e.log]
    ELSE [mid |-> d.arg, out |-> d.ret, alerts |-> <<>>,
          log |-> <<"INFO:no_signal">>]

\* lines 190-193: d is what detect_cross made of the averaged series
strategy_detect(d, smtp_ok) ==
    IF d.ret.none
    THEN [mid |-> d.arg, out |-> None, alerts |-> <<>>, log |-> d.log]
    ELSE strategy_notify(d, Latest(d.ret), smtp_ok)

\* lines 185-188: m is what calculate_ma made of the fetched series
strategy_compute(m, smtp_ok) ==
    IF m.ret.none
    THEN Idle(m.log)
    ELSE strategy_detect(detect_cross(m.ret), smtp_ok)

\* strategy_main from the value df0 its data source returned
strategy_main(df0, smtp_ok) ==
    IF df0.none \/ Len(df0.rows) = 0 \/ df0.columns = {}
    THEN Idle(<<"ERROR:fetch_failed">>)
    ELSE strategy_compute(calculate_ma(df0), smtp_ok)

(* ------------------------------ inputs -------------------------------- *)
PriceCells == PriceLevels \cup {NaN}

RECURSIVE SeqsUpTo(_, _)
SeqsUpTo(S, n) ==
    IF n = 0 THEN {<<>>}
    ELSE LET prev == SeqsUpTo(S, n - 1)
         IN prev \cup {Append(s, x) : s \in {t \in prev : Len(t) = n - 1}, x \in S}

BarColumns(tcol) == {tcol, "open", "high", "low", "close"}

\* a bar series: closes, its time column's name, the columns it carries and
\* the row (0 for none) whose open price is missing
Bars(closes, tcol, cols, openNaN) ==
    Frame(cols,
          AsSeq([i \in 1..Len(closes) |->
              Cells([index |-> i - 1,
                     time |-> i,
                     trade_time |-> Len(closes) + 1 - i,
                     open |-> IF i = openNaN THEN NaN ELSE closes[i],
                     high |-> closes[i], low |-> closes[i],
                     close |-> closes[i]],
                    cols \cup {"index"})]))

\* close = a on the first k bars and b on the remaining n - k
StepCloses(n, k, a, b) == AsSeq([i \in 1..n |-> IF i <= k THEN a ELSE b])

\* the series a caller may hold: every short series over the price cells,
\* short series with a column renamed, absent or holed, and step series
IsInput(df) ==
    \/ df = None
    \/ \E c \in SeqsUpTo(PriceCells, MaxLen) :
          df = Bars(c, "time", BarColumns("time"), 0)
    \/ \E c \in SeqsUpTo(PriceCells, MaxVariantLen) :
          \/ df = Bars(c, "trade_time", BarColumns("trade_time"), 0)
          \/ df = Bars(c, "time", BarColumns("time") \ {"close"}, 0)
          \/ df = Bars(c, "time", BarColumns("time") \ {"low"}, 0)
          \/ df = Bars(c, "time", BarColumns("time"), 2)
    \/ \E n \in 1..MaxStepLen, k \in 0..MaxStepLen, a \in PriceLevels,
          b \in PriceLevels :
          /\ k < n
          /\ df = Bars(StepCloses(n, k, a, b), "time", BarColumns("time"), 0)

TestSizes == (DEFAULT_N - MaxTestShort)..DEFAULT_N

Init ==
    /\ pc = "init"
    /\ IsInput(src)
    /\ fetched = None
    /\ mid = None
    /\ out = None
    /\ log = <<>>
    /\ alerts = <<>>

CalculateMa ==
    /\ pc = "init"
    /\ ~src.none
    /\ LET r == calculate_ma(src)
       IN /\ mid' = r.ret
          /\ src' = r.arg
          /\ log' = r.log
    /\ pc' = "ma"
    /\ UNCHANGED <<fetched, out, alerts>>

DetectCross ==
    /\ pc = "ma"
    /\ LET r == detect_cross(mid)
       IN /\ out' = r.ret
          /\ mid' = r.arg
          /\ log' = log \o r.log
    /\ pc' = "cross"
    /\ UNCHANGED <<src, fetched, alerts>>

\* a caller builds its series with generate_test_data
GenerateTestData ==
    /\ pc = "init"
    /\ src.none
    /\ \E signal_type \in {"golden", "death"}, n \in TestSizes,
          amp \in {NOISE_SD * a : a \in 0..MaxNoise}, phase \in 0..2 :
            src' = generate_test_data(signal_type, n, amp, phase)
    /\ UNCHANGED <<pc, fetched, mid, out, log, alerts>>

\* get_tushare_futures_data when the provider answers with src, or raises
Fetch ==
    /\ pc = "init"
    /\ \E raised \in BOOLEAN :
          LET r == get_tushare_futures_data(raised, src, FETCH_COUNT)
          IN /\ out' = r.ret
             /\ log' = r.log
             /\ pc' = IF raised THEN "fetch_raised" ELSE "fetch"
    /\ UNCHANGED <<src, fetched, mid, alerts>>

\* a run of strategy_main: the provider answers with src, or raises
StrategyMain ==
    /\ pc = "init"
    /\ \E raised \in BOOLEAN, smtp_ok \in BOOLEAN :
          LET f == get_tushare_futures_data(raised, src, FETCH_COUNT)
              r == strategy_main(f.ret, smtp_ok)
          IN /\ fetched' = f.ret
             /\ mid' = r.mid
             /\ out' = r.out
             /\ alerts' = r.alerts
             /\ log' = <<"INFO:start">> \o f.log \o r.log
    /\ pc' = "main"
    /\ UNCHANGED src

\* a run of strategy_main whose data source is replaced by one that hands
\* over src as it is (the series of generate_test_data, a fake provider)
StrategyMainOnSeries ==
    /\ pc = "init"
    /\ \E smtp_ok \in BOOLEAN :
          LET r == strategy_main(src, smtp_ok)
          IN /\ fetched' = src
             /\ mid' = r.mid
             /\ out' = r.out
             /\ alerts' = r.alerts
             /\ log' = <<"INFO:start">> \o r.log
    /\ pc' = "main_series"
    /\ UNCHANGED src

Next ==
    \/ GenerateTestData
    \/ CalculateMa
    \/ DetectCross
    \/ Fetch
    \/ StrategyMain
    \/ StrategyMainOnSeries

Spec == Init /\ [][Next]_vars

(* ------------------------------ claims -------------------------------- *)
Short(rws, i) == rws[i]["Short_MA"]
Long(rws, i) == rws[i]["Long_MA"]
Above(rws, i) == Short(rws, i).num * Long(rws, i).den > Long(rws, i).num * Short(rws, i).den
Below(rws, i) == Short(rws, i).num * Long(rws, i).den < Long(rws, i).num * Short(rws, i).den
Signals(df, v) == {i \in 1..Len(df.rows) : df.rows[i]["Signal"] = v}

\* C1: in the output of calculate_ma then detect_cross, row 0 is neutral and
\* every later row is an upward-cross iff its short average is above its long
\* average and was not above on the row before, a downward-cross iff it is
\* below and was not below on the row before, and neutral otherwise.
C1_OneBarLookback ==
    (pc = "cross" /\ ~out.none) =>
        \A i \in 1..Len(out.rows) :
            LET sig == out.rows[i]["Signal"]
            IN /\ sig \in {-1, 0, 1}
               /\ i = 1 => sig = 0
               /\ i > 1 =>
                    /\ sig = 1 <=> (Above(out.rows, i) /\ ~Above(out.rows, i - 1))
                    /\ sig = -1 <=> (Below(out.rows, i) /\ ~Below(out.rows, i - 1))

C1_Witness ==
    /\ pc = "cross"
    /\ ~out.none
    /\ Signals(out, 1) # {}
    /\ Signals(out, -1) # {}

\* C2: a run of strategy_main invokes send_email_alert at most once, and
\* does so iff the fetch returned a non-empty series, calculate_ma and
\* detect_cross returned a series, and the Signal of the last detected row is
\* not 0.
C2_NotifyOnLatestOnly ==
    pc \in {"main", "main_series"} =>
        /\ Len(alerts) <= 1
        /\ Len(alerts) = 1 <=>
              /\ ~fetched.none
              /\ Len(fetched.rows) > 0
              /\ ~mid.none
              /\ ~out.none
              /\ out.rows[Len(out.rows)]["Signal"] # 0

C2_Witness ==
    /\ pc = "main_series"
    /\ Len(alerts) = 1
    /\ alerts[1].signal_type = "death"
    /\ Signals(out, 1) # {}

PROVIDER_COLUMNS == {"trade_time", "open", "high", "low", "close"}

\* C3: when the provider returns a non-empty table with the trade_time and
\* open/high/low/close columns, get_tushare_futures_data returns its
\* min(count, length) most recent bars, oldest first, and not the failure.
C3_FetchReturnsBars ==
    (pc = "fetch" /\ ~src.none /\ Len(src.rows) > 0
        /\ PROVIDER_COLUMNS \subseteq src.columns
        /\ \A i \in 1..Len(src.rows) : RowValid(src.rows[i])) =>
        /\ ~out.none
        /\ Len(out.rows) = Min(FETCH_COUNT, Len(src.rows))
        /\ \A i \in 1..(Len(out.rows) - 1) :
              out.rows[i]["index"] <= out.rows[i + 1]["index"]

\* a well-formed bar series: the bar columns, no missing cell
WellFormed(df) ==
    /\ ~df.none
    /\ df.columns = BarColumns("time")
    /\ \A i \in 1..Len(df.rows) : RowValid(df.rows[i])

Close(df, i) == df.rows[i]["close"]

\* the first k bars at one level, the remaining ones at another
IsStep(df, k) ==
    /\ WellFormed(df)
    /\ k \in 1..(Len(df.rows) - 1)
    /\ \A i \in 1..Len(df.rows) :
          Close(df, i) = IF i <= k THEN Close(df, 1) ELSE Close(df, Len(df.rows))
    /\ Close(df, 1) # Close(df, Len(df.rows))

\* 1 for an ascending step, -1 for a descending one
StepDirection(df) ==
    IF Close(df, 1) < Close(df, Len(df.rows)) THEN 1 ELSE -1

Crossed(df, dir, i) == IF dir = 1 THEN Above(df.rows, i) ELSE Below(df.rows, i)

\* C4 (as claimed): every two-plateau step series yields exactly one cross in
\* the direction of the step and none in the other direction.
C4_ExactlyOneCross ==
    \A k \in 1..MaxStepLen :
        (pc = "cross" /\ IsStep(src, k)) =>
            /\ ~out.none
            /\ Cardinality(Signals(out, StepDirection(src))) = 1
            /\ Signals(out, -StepDirection(src)) = {}

\* C4 (amended): a two-plateau step series of more than SHORT_MA (and at most
\* KEEP_ROWS) bars, stepping after bar k, yields exactly one cross in the
\* direction of the step, none in the other, on row max(k, SHORT_MA), the first
\* row whose short average passes the long one; a step series of at most
\* SHORT_MA bars yields no cross at all.
C4_OneCrossFromSixBars ==
    \A k \in 1..MaxStepLen :
        (pc = "cross" /\ IsStep(src, k) /\ Len(src.rows) <= KEEP_ROWS) =>
            LET dir == StepDirection(src)
                at == Max(k, SHORT_MA) + 1
            IN IF Len(src.rows) > SHORT_MA
               THEN /\ ~out.none
                    /\ Signals(out, dir) = {at}
                    /\ Signals(out, -dir) = {}
                    /\ Crossed(out, dir, at)
                    /\ \A i \in 1..(at - 1) : ~Crossed(out, dir, i)
               ELSE /\ Len(src.rows) < 2 => out.none
                    /\ ~out.none => Signals(out, 0) = 1..Len(out.rows)

C4_Witness ==
    /\ pc = "cross"
    /\ IsStep(src, SHORT_MA + 2)
    /\ Len(src.rows) > SHORT_MA + LONG_MA
    /\ Signals(out, 1) = {SHORT_MA + 3}

HasMissingClose(df) ==
    \/ "close" \notin df.columns
    \/ \E i \in 1..Len(df.rows) : df.rows[i]["close"] = NaN

WithClose(df, lo, hi) == {p \in lo..hi : df.rows[p]["close"] # NaN}

Detector(df) == detect_cross(calculate_ma(df).ret).ret

\* C6 (as claimed): a series of 2 bars can signal, that is, once the detector
\* has run on a 2-bar series there are two close prices whose 2-bar series
\* gets a non-neutral signal on row 1.
C6_TwoBarsCanSignal ==
    (pc = "cross" /\ WellFormed(src) /\ Len(src.rows) = 2) =>
        \E c0 \in PriceLevels, c1 \in PriceLevels :
            LET res == Detector(Bars(<<c0, c1>>, "time", BarColumns("time"), 0))
            IN ~res.none /\ res.rows[2]["Signal"] # 0

\* C6 (amended): the bars 0 .. SHORT_MA - 1 of a series are always neutral,
\* so a series of length 2 never signals and SHORT_MA + 1 is the minimum
\* length for which a non-neutral signal can occur (on bar SHORT_MA).
C6_WarmUpRowsNeutral ==
    (pc = "cross" /\ ~out.none) =>
        \A i \in 1..Len(out.rows) :
            out.rows[i]["Signal"] # 0 =>
                /\ out.rows[i]["index"] >= SHORT_MA
                /\ Len(src.rows) >= SHORT_MA + 1

C6_Witness ==
    /\ pc = "cross"
    /\ Len(src.rows) = SHORT_MA + 1
    /\ ~out.none
    /\ out.rows[Len(out.rows)]["index"] = SHORT_MA
    /\ out.rows[Len(out.rows)]["Signal"] # 0

DETECT_INPUT_COLUMNS ==
    {"time", "open", "high", "low", "close", "Short_MA", "Long_MA"}

\* C7: detect_cross on a null series or one of fewer than 2 bars returns the
\* null result, logs it and leaves the series without a Signal; on 2 or more
\* bars with the required columns it returns an annotated series; and a run
\* of strategy_main whose averaged series has fewer than 2 bars sends nothing.
C7_InsufficientData ==
    [][/\ pc' = "cross" =>
            /\ (mid.none \/ Len(mid.rows) < 2) =>
                  /\ out'.none
                  /\ mid' = mid
                  /\ log' = log \o <<"WARNING:insufficient_data">>
            /\ (~mid.none /\ Len(mid.rows) >= 2
                    /\ DETECT_INPUT_COLUMNS \subseteq mid.columns) =>
                  /\ ~out'.none
                  /\ out'.columns = OUT_COLUMNS
                  /\ Len(out'.rows) = Len(mid.rows)
       /\ (pc' \in {"main", "main_series"} /\ Len(mid'.rows) < 2) =>
            /\ out'.none
            /\ alerts' = <<>>]_vars

C7_Witness ==
    /\ pc = "cross"
    /\ ~mid.none
    /\ Len(mid.rows) = 1
    /\ out.none
    /\ log = <<"WARNING:insufficient_data">>

\* C8: the last bar of a series built by generate_test_data with n = 50
\* carries the signal: upward-cross for golden, downward-cross for death.
C8_LastBarTriggers ==
    (pc = "cross" /\ ~src.none /\ src.columns = TEST_COLUMNS
        /\ Len(src.rows) = DEFAULT_N) =>
        /\ ~out.none
        /\ out.rows[Len(out.rows)]["Signal"] =
              IF Close(src, 1) < Close(src, DEFAULT_N) THEN 1 ELSE -1

\* C9: neither calculate_ma nor detect_cross changes the series object it
\* is passed.
C9_NoSideEffects ==
    [][/\ pc' = "ma" => src' = src
       /\ pc' = "cross" => mid' = mid]_vars

IsConstant(df) ==
    /\ WellFormed(df)
    /\ \A i \in 1..Len(df.rows) : Close(df, i) = Close(df, 1)

\* C10: the detector marks every bar of a constant-price series neutral.
C10_ConstantSeriesNeutral ==
    (pc = "cross" /\ IsConstant(src)) =>
        /\ Len(src.rows) >= 2 => ~out.none
        /\ ~out.none =>
              /\ Len(out.rows) = Min(Len(src.rows), KEEP_ROWS)
              /\ Signals(out, 0) = 1..Len(out.rows)

C10_Witness ==
    /\ pc = "cross"
    /\ IsConstant(src)
    /\ Len(src.rows) > LONG_MA
    /\ ~out.none
    /\ Signals(out, 0) = 1..Len(out.rows)
====
